---- MODULE Spec2Model ----
(***************************************************************************)
(* Model of the ai-init installer (lib/installer.js): the two flows        *)
(* createProject and addToProject, the template copy loop and the alias    *)
(* linking step, in the three revisions of the installer kept under        *)
(* lib/installer.js.  The destination directory is one tracked directory:  *)
(* cwd/<projectName> for createProject, cwd for addToProject.              *)
(***************************************************************************)
EXTENDS Integers, Sequences, FiniteSets, TLC

(***************************************************************************)
(* Bounds of the model                                                     *)
(***************************************************************************)
\* longest explicitly spelled prefix of a project name
MaxNameLen == 1
\* number of entries the destination may hold before the first run
MaxPre == 1
\* number of successive invocations of the installer
MaxRuns == 2
\* number of entries of a template tree given to the path enumerator
MaxNodes == 3
\* number of successive enumerations of the same tree
MaxEnums == 2
\* number of command-line arguments
MaxArgs == 2

(***************************************************************************)
(* Paths, relative to the destination root, as sequences of segments       *)
(***************************************************************************)
RulesFile == <<"rules.yaml">>
PackageJson == <<"package.json">>
GitIgnore == <<".gitignore">>
PackageLock == <<"package-lock.json">>
NotesFile == <<"notes.txt">>
MemoryBankFile == <<"memory-bank", "systemPatterns.md">>

\* the alias files of the first revision (three) and of the later ones (two)
AliasFiles3 == << <<".windsurfrules">>, <<".cursorrules">>, <<".clinerules">> >>
AliasFiles2 == << <<".windsurfrules">>, <<".cursorrules">> >>
AliasSet == {AliasFiles3[i] : i \in 1..Len(AliasFiles3)}

\* the directories both flows are expected to leave behind
ScaffoldDirs == << <<".cursor", "rules">>, <<"doc-files", "adr">>, <<"memory-bank">>, <<"mem-scripts">> >>
ScaffoldSet == {ScaffoldDirs[i] : i \in 1..Len(ScaffoldDirs)}

TemplateFiles == {RulesFile, MemoryBankFile, PackageJson}
Paths == TemplateFiles \cup AliasSet \cup {GitIgnore, PackageLock, NotesFile}

\* every non-empty prefix of a path: the directories ensureDir creates
Prefixes(p) == {SubSeq(p, 1, k) : k \in 1..Len(p)}
dirname(p) == SubSeq(p, 1, Len(p) - 1)
GitDir == <<".git">>
NodeModules == <<"node_modules">>
Dirs == UNION {Prefixes(dirname(p)) : p \in Paths} \cup UNION {Prefixes(d) : d \in ScaffoldSet} \cup {GitDir, NodeModules}

\* the bundled template trees the model considers
Templates == { {RulesFile, MemoryBankFile}, {MemoryBankFile}, {RulesFile, PackageJson} }

(***************************************************************************)
(* File contents                                                           *)
(***************************************************************************)
Absent == "absent"
Custom == "CUSTOM"
Link == "LINK->rules.yaml"
GitIgnoreText == "GITIGNORE"
LockText == "LOCK"
TemplateContent(p) ==
  CASE p = RulesFile -> "T:rules.yaml"
    [] p = PackageJson -> "T:package.json"
    [] p = MemoryBankFile -> "T:systemPatterns.md"
    [] OTHER -> "T:?"

(***************************************************************************)
(* The destination directory: kind of the root, files, sub-directories     *)
(***************************************************************************)
NoFiles == [p \in Paths |-> Absent]
AbsentDisk == [kind |-> "absent", files |-> NoFiles, dirs |-> {}]
EmptyDirDisk == [kind |-> "dir", files |-> NoFiles, dirs |-> {}]
FileDisk == [kind |-> "file", files |-> NoFiles, dirs |-> {}]

\* a directory holding the files of pre with custom content
SeededDisk(pre) ==
  [kind |-> "dir",
   files |-> [p \in Paths |-> IF p \in pre THEN Custom ELSE Absent],
   dirs |-> UNION {Prefixes(dirname(p)) : p \in pre}]

\* the content a read of p returns, following an alias symlink
ReadFile(d, p) == IF d.files[p] = Link THEN d.files[RulesFile] ELSE d.files[p]

\* fs.pathExists: follows symbolic links
pathExists(d, p) ==
  IF p = <<>> THEN d.kind # "absent"
  ELSE IF p \in Paths THEN d.kind = "dir" /\ ReadFile(d, p) # Absent
  ELSE d.kind = "dir" /\ p \in d.dirs

\* fs.readdir(root).length > 0
HasEntries(d) == d.dirs # {} \/ \E p \in Paths : d.files[p] # Absent

\* fs.ensureDir: creates the directory and its missing parents
ensureDir(d, p) == [d EXCEPT !.kind = "dir", !.dirs = @ \cup Prefixes(p)]

\* fs.copyFile / fs.copy / fs.writeFile: the destination gets the content
\* (written through a symbolic link when the destination is one)
WriteFile(d, p, content) ==
  IF d.files[p] = Link THEN [d EXCEPT !.files[RulesFile] = content]
  ELSE [d EXCEPT !.files[p] = content]

(***************************************************************************)
(* Project names and validate-npm-package-name                             *)
(***************************************************************************)
Alphabet == {"a", "A", ".", "/", "\\", " ", "!", "@"}
NameLimit == 214
\* a scoped package name, "@a/a"
ScopedName == [chars |-> <<"@", "a", "/", "a">>, pad |-> 0]
\* a name is its first characters followed by pad further letters "a"
ShortStrings == UNION {[1..n -> Alphabet] : n \in 0..MaxNameLen}
Names == {[chars |-> s, pad |-> 0] : s \in ShortStrings}
         \cup {[chars |-> <<"a">>, pad |-> NameLimit - 1], [chars |-> <<"a", "a">>, pad |-> NameLimit - 1]}
         \cup {ScopedName}
NoName == [chars |-> <<"?">>, pad |-> 0]

NameLength(n) == Len(n.chars) + n.pad
FirstChar(n) == IF Len(n.chars) > 0 THEN n.chars[1] ELSE IF n.pad > 0 THEN "a" ELSE ""
LastChar(n) == IF n.pad > 0 THEN "a" ELSE IF Len(n.chars) > 0 THEN n.chars[Len(n.chars)] ELSE ""
HasChar(n, c) == \E i \in 1..Len(n.chars) : n.chars[i] = c
\* the last '/'-separated segment contains c
LastSegmentHas(n, c) ==
  \E i \in 1..Len(n.chars) : n.chars[i] = c /\ \A j \in (i+1)..Len(n.chars) : n.chars[j] # "/"
\* encodeURIComponent(name) !== name
NotUrlSafe(n) == HasChar(n, "/") \/ HasChar(n, "\\") \/ HasChar(n, " ") \/ HasChar(n, "@")
\* scopedPackagePattern with url-safe user and package parts
IsScoped(n) ==
  /\ Len(n.chars) >= 3
  /\ n.chars[1] = "@"
  /\ \E k \in 3..Len(n.chars) :
       /\ n.chars[k] = "/"
       /\ k < Len(n.chars) \/ n.pad > 0
       /\ \A j \in 2..Len(n.chars) : j # k => n.chars[j] \notin {"/", "\\", " ", "@"}

Opt(cond, msg) == IF cond THEN <<msg>> ELSE <<>>
NpmErrors(n) ==
  Opt(NameLength(n) = 0, "name length must be greater than zero")
  \o Opt(FirstChar(n) = ".", "name cannot start with a period")
  \o Opt(FirstChar(n) = "_", "name cannot start with an underscore")
  \o Opt(FirstChar(n) = " " \/ LastChar(n) = " ", "name cannot contain leading or trailing spaces")
  \o Opt(NotUrlSafe(n) /\ ~IsScoped(n), "name can only contain URL-friendly characters")
NpmWarnings(n) ==
  Opt(NameLength(n) > NameLimit, "name can no longer contain more than 214 characters")
  \o Opt(HasChar(n, "A"), "name can no longer contain capital letters")
  \o Opt(LastSegmentHas(n, "!"), "name can no longer contain special characters")
validateProjectName(n) ==
  [validForNewPackages |-> NpmErrors(n) = <<>> /\ NpmWarnings(n) = <<>>,
   errors |-> NpmErrors(n),
   warnings |-> NpmWarnings(n)]

\* lib/validators/project-validator.js: an empty name is refused at once,
\* any other name is valid when validate-npm-package-name accepts it for
\* new packages
validators_validateProjectName(n) ==
  IF NameLength(n) = 0
  THEN [isValid |-> FALSE, errors |-> <<"Project name is required">>]
  ELSE LET npmValidation == validateProjectName(n)
       IN IF ~npmValidation.validForNewPackages
          THEN [isValid |-> FALSE, errors |-> npmValidation.errors \o npmValidation.warnings]
          ELSE [isValid |-> TRUE, errors |-> <<>>]

(***************************************************************************)
(* InstallerError and the result of a run                                  *)
(***************************************************************************)
NoPath == <<"-">>
\* original: details.originalError is set; raw tells what became of the
\* lower-level error behind the failure: "none" when there was none, "kept"
\* when the error object is reachable through details.originalError
InstallerError(code, inner, original, errors, path) ==
  [status |-> "error", code |-> code, inner |-> inner, original |-> original,
   errors |-> errors, path |-> path, raw |-> IF original THEN "kept" ELSE "none"]
NoResult == [status |-> "none", code |-> "", inner |-> "", original |-> FALSE,
             errors |-> <<>>, path |-> NoPath, raw |-> "none"]
Returned == [status |-> "ok", code |-> "", inner |-> "", original |-> FALSE,
             errors |-> <<>>, path |-> NoPath, raw |-> "none"]

\* skipSymlink and verbose (process.env.VERBOSE) are fixed when a flow starts;
\* skipGit and skipInstall are inputs of the steps that read them
Options == [skipSymlink : BOOLEAN, verbose : BOOLEAN]
NoOptions == [skipSymlink |-> FALSE, verbose |-> FALSE]

(***************************************************************************)
(* Template trees for the path enumerator: paths below the template root   *)
(* with the type fs.readdir(dir, {withFileTypes: true}) reports for them   *)
(***************************************************************************)
NodePaths == {<<"a">>, <<"b">>, <<"d">>, <<"d", "a">>, <<"d", "b">>}
EntryNames == {"a", "b", "d"}
\* "link" is a symbolic link; the links of the model point at the template
\* root, so that each of them closes a cycle
EntryKinds == {"none", "file", "dir", "link"}
WellFormed(t) ==
  /\ \A p \in NodePaths : Len(p) > 1 /\ t[p] # "none" => t[dirname(p)] = "dir"
  /\ Cardinality({p \in NodePaths : t[p] # "none"}) <= MaxNodes
Trees == {t \in [NodePaths -> EntryKinds] : WellFormed(t)}
EmptyTree == [p \in NodePaths |-> "none"]

\* the entry a path names, a symbolic link on the way being followed to the root
RECURSIVE resolveFrom(_, _, _, _)
resolveFrom(t, cur, p, i) ==
  IF i > Len(p) THEN cur
  ELSE LET next == Append(cur, p[i])
       IN IF next \in NodePaths /\ t[next] = "link" /\ i < Len(p)
          THEN resolveFrom(t, <<>>, p, i + 1)
          ELSE resolveFrom(t, next, p, i + 1)
realpath(t, p) == resolveFrom(t, <<>>, p, 1)
\* the type of the entry itself (lstat): a link is a link
lstatKind(t, p) ==
  IF realpath(t, p) = <<>> THEN "dir"
  ELSE IF realpath(t, p) \in NodePaths THEN t[realpath(t, p)] ELSE "none"
\* the type after following a final link (stat)
statKind(t, p) == IF lstatKind(t, p) = "link" THEN "dir" ELSE lstatKind(t, p)
\* the directory a path leads to, and the names fs.readdir finds in it
realdir(t, p) == IF lstatKind(t, p) = "link" THEN <<>> ELSE realpath(t, p)
entriesOf(t, p) ==
  {n \in EntryNames : Append(realdir(t, p), n) \in NodePaths /\ t[Append(realdir(t, p), n)] # "none"}
NoDir == <<"-">>

(***************************************************************************)
(* Command lines of the zero-dependency CLI.  An argument is its leading   *)
(* dashes and the word after them; an answer to the name prompt is its     *)
(* leading spaces and the word after them                                  *)
(***************************************************************************)
Tok(dashes, word) == [dashes |-> dashes, lead |-> 0, word |-> word]
ArgTokens == {Tok(2, "add"), Tok(2, "help"), Tok(1, "h"), Tok(2, "version"), Tok(1, "v"),
              Tok(2, "verbose"), Tok(2, "skip-symlink"), Tok(2, "bogus"), Tok(0, "proj")}
ArgLists == UNION {[1..n -> ArgTokens] : n \in 0..MaxArgs}
Answers == [dashes : {0}, lead : 0..1, word : {"", "proj"}]
null == [dashes |-> 0, lead |-> 0, word |-> ""]
\* arg.startsWith('--')
startsWithDashes(arg) == arg.dashes >= 2
\* answer.trim(): the word without the spaces around it
trim(answer) == [answer EXCEPT !.lead = 0]
\* JavaScript's !value for a name: null and the empty string
falsy(name) == name.dashes = 0 /\ name.lead = 0 /\ name.word = ""
CliOptions0 == [projectName |-> null, add |-> FALSE, verbose |-> FALSE, skipSymlink |-> FALSE,
                help |-> FALSE, version |-> FALSE]
NoCall == [fn |-> "none", name |-> null]

(***************************************************************************)
(* State                                                                   *)
(***************************************************************************)
VARIABLES
  revision,      \* which of the three installers of lib/installer.js runs
  platform,      \* process.platform
  template,      \* the files of the bundled template tree
  templateState, \* "ok", "missing" or "unreadable"
  disk,          \* the destination directory
  projectName,   \* the name the tracked destination was created under
  callName,      \* the name the running createProject was called with
  pc,            \* position of the running flow
  flow,          \* "create" or "add"
  options,       \* options of the running flow (verbose is process.env.VERBOSE)
  plan,          \* files returned by getAllFiles, in enumeration order
  idx,           \* index of the next plan entry to copy
  result,        \* what the flow returned or threw
  log,           \* console output of the running flow
  disk0,         \* the destination when the running flow started
  written,       \* files the running flow wrote
  failed,        \* template files whose copy threw in the running flow
  prevFlow,      \* flow and outcome of the previous run
  prevWritten,   \* files the previous run wrote, when it was addToProject
  twin,          \* the same run replayed from the other fresh target
  twinActive,    \* the replay is in step with the run
  runs,          \* invocations started so far
  tree,          \* the tree getAllFiles is called on
  unreadableDir, \* the directory of the tree fs.readdir fails on, if any
  enumPc,        \* "idle", "running" or "returned"
  frames,        \* the activations of getAllFiles, the innermost last
  listing,       \* what the outermost getAllFiles returned or threw
  reads,         \* the directories read by the running enumeration
  prevListing,   \* what the previous enumeration returned
  enumRuns,      \* enumerations started so far
  argv,          \* process.argv.slice(2)
  argi,          \* index of the next argument parseArgs looks at
  cliOptions,    \* the options object of parseArgs
  cliPc,         \* "idle", "parse", "main", "prompt" or "exit"
  called,        \* the flow main called, with the name it passed
  shown          \* what main printed instead of running a flow

vars == <<revision, platform, template, templateState, disk, projectName, callName, pc, flow,
          options, plan, idx, result, log, disk0, written, failed, prevFlow, prevWritten,
          twin, twinActive, runs,
          tree, unreadableDir, enumPc, frames, listing, reads, prevListing, enumRuns,
          argv, argi, cliOptions, cliPc, called, shown>>
\* the state of a flow, and the state the flows never touch
flowVars == <<disk, projectName, callName, pc, flow, options, plan, idx, result, log, disk0,
              written, failed, prevFlow, prevWritten, twin, twinActive, runs>>
enumVars == <<tree, unreadableDir, enumPc, frames, listing, reads, prevListing, enumRuns>>
cliVars == <<argv, argi, cliOptions, cliPc, called, shown>>
aside == <<enumVars, cliVars>>
CliIdle ==
  /\ argi = 1
  /\ cliOptions = CliOptions0
  /\ called = NoCall
  /\ shown = "none"
NoListing == [status |-> "none", files |-> <<>>]
EnumeratorIdle ==
  /\ enumPc = "idle"
  /\ frames = <<>>
  /\ listing = NoListing
  /\ reads = <<>>
  /\ prevListing = NoListing
  /\ enumRuns = 0
env == <<revision, platform, template, templateState>>

SeedPaths == {RulesFile, MemoryBankFile, PackageJson, NotesFile, AliasFiles3[2]}
InitialDisks == {AbsentDisk, FileDisk}
                \cup {SeededDisk(pre) : pre \in {q \in SUBSET SeedPaths : Cardinality(q) <= MaxPre}}

Init ==
  /\ revision \in 1..3
  /\ platform \in {"win32", "posix"}
  /\ template \in Templates
  /\ templateState \in {"ok", "missing", "unreadable"}
  /\ templateState # "ok" => template = {MemoryBankFile}
  /\ disk \in InitialDisks
  /\ projectName = NoName
  /\ callName = NoName
  /\ pc = "idle"
  /\ flow = "none"
  /\ options = NoOptions
  /\ plan = <<>>
  /\ idx = 1
  /\ result = NoResult
  /\ log = {}
  /\ disk0 = disk
  /\ written = {}
  /\ failed = {}
  /\ prevFlow = "none"
  /\ prevWritten = {}
  /\ twin = disk
  /\ twinActive = FALSE
  /\ runs = 0
  /\ tree = EmptyTree
  /\ unreadableDir = NoDir
  /\ EnumeratorIdle
  /\ argv = <<>>
  /\ cliPc = "idle"
  /\ CliIdle

Report(kind, path) == [kind |-> kind, path |-> path]
Aliases == IF revision = 1 THEN AliasFiles3 ELSE AliasFiles2
preserveExisting == flow = "add"

\* the step that follows the copy loop, and the one that follows the scaffold directories
\* variant: the template is enumerated and copied again after the loop
AfterCopyRetry == "enumerate"

AfterCopy ==
  IF flow = "create" THEN (IF revision = 1 THEN "link" ELSE "git")
  ELSE (IF revision = 2 THEN "link" ELSE "dirs")
AfterDirs == IF revision = 2 THEN "enumerate" ELSE "link"

(***************************************************************************)
(* createProject: name validation                                          *)
(***************************************************************************)
\* the other fresh target: absent for an empty directory and conversely
OtherFresh(d) == IF d = AbsentDisk THEN EmptyDirDisk ELSE AbsentDisk
IsFresh(d) == d = AbsentDisk \/ d = EmptyDirDisk

Outcome(d, r) == [disk |-> d, result |-> r]

\* variant: the target directory is created before the name is rejected
rejectNameAfterMkdir(d, nameValidation) ==
  Outcome(ensureDir(d, <<>>), InstallerError("INVALID_NAME", "", FALSE,
                                             nameValidation.errors \o nameValidation.warnings, NoPath))

\* a name that is not valid for new packages is rejected with the complaints
rejectName(d, nameValidation) ==
  Outcome(d, InstallerError("INVALID_NAME", "", FALSE,
                            nameValidation.errors \o nameValidation.warnings, NoPath))

createProject(name, opts) ==
  /\ pc = "idle"
  /\ runs < MaxRuns
  /\ runs' = runs + 1
  \* every valid name of a behaviour resolves to the tracked destination
  /\ validateProjectName(name).validForNewPackages => projectName \in {NoName, name}
  /\ LET nameValidation == validateProjectName(name)
     IN IF ~nameValidation.validForNewPackages
        THEN /\ result' = rejectName(disk, nameValidation).result
             /\ disk' = rejectName(disk, nameValidation).disk
             /\ pc' = "done"
             /\ twinActive' = FALSE
             /\ twin' = disk
        ELSE /\ result' = NoResult
             /\ disk' = disk
             /\ pc' = "prepare"
             /\ twinActive' = IsFresh(disk)
             /\ twin' = IF IsFresh(disk) THEN OtherFresh(disk) ELSE disk
  /\ callName' = name
  /\ projectName' = IF validateProjectName(name).validForNewPackages THEN name ELSE projectName
  /\ flow' = "create"
  /\ options' = IF validateProjectName(name).validForNewPackages THEN opts ELSE NoOptions
  /\ plan' = <<>>
  /\ idx' = 1
  /\ log' = {}
  /\ disk0' = disk
  /\ written' = {}
  /\ failed' = {}
  /\ UNCHANGED <<env, aside, prevFlow, prevWritten>>

(***************************************************************************)
(* createProject: the target directory                                     *)
(***************************************************************************)
\* variant: the listing of an existing target is not looked at
prepareTarget1Unchecked(d) ==
  IF pathExists(d, <<>>) /\ d.kind = "file"
  THEN Outcome(d, InstallerError("DIR_CREATE_FAILED", "", TRUE, <<>>, <<>>))
  ELSE Outcome(ensureDir(d, <<>>), NoResult)

\* variant: every existing target is refused, empty or not
prepareTarget1ExistsIsError(d) ==
  IF pathExists(d, <<>>)
  THEN IF d.kind = "file"
       THEN Outcome(d, InstallerError("DIR_CREATE_FAILED", "", TRUE, <<>>, <<>>))
       ELSE Outcome(d, InstallerError("DIR_NOT_EMPTY", "", FALSE, <<>>, <<>>))
  ELSE Outcome(ensureDir(d, <<>>), NoResult)

\* first revision: an existing target is listed, a missing one is created
prepareTarget1(d) ==
  IF pathExists(d, <<>>)
  THEN IF d.kind = "file"
       THEN Outcome(d, InstallerError("DIR_CREATE_FAILED", "", TRUE, <<>>, <<>>))
       ELSE IF HasEntries(d)
            THEN Outcome(d, InstallerError("DIR_NOT_EMPTY", "", FALSE, <<>>, <<>>))
            ELSE Outcome(d, NoResult)
  ELSE Outcome(ensureDir(d, <<>>), NoResult)

\* variant: the listing of an existing target is not looked at
prepareTarget2Unchecked(d) ==
  IF pathExists(d, <<>>) /\ d.kind = "file"
  THEN Outcome(d, InstallerError("FS_ERROR", "", TRUE, <<>>, <<>>))
  ELSE Outcome(ensureDir(d, <<>>), NoResult)

\* later revisions: the target is checked, then ensureDir runs in every case
prepareTarget2(d) ==
  IF pathExists(d, <<>>) /\ d.kind = "file"
  THEN Outcome(d, InstallerError("FS_ERROR", "", TRUE, <<>>, <<>>))
  ELSE IF pathExists(d, <<>>) /\ HasEntries(d)
       THEN Outcome(d, InstallerError("DIR_NOT_EMPTY", "", FALSE, <<>>, <<>>))
       ELSE Outcome(ensureDir(d, <<>>), NoResult)

prepareTarget(d) == IF revision = 1 THEN prepareTarget1(d) ELSE prepareTarget2(d)

PrepareTarget ==
  /\ pc = "prepare"
  /\ LET out == prepareTarget(disk)
         shadow == prepareTarget(twin)
     IN /\ disk' = out.disk
        /\ result' = out.result
        /\ pc' = IF out.result.status = "error" THEN "done" ELSE "enumerate"
        /\ twin' = shadow.disk
        /\ twinActive' = (twinActive /\ shadow.result = out.result)
        /\ log' = IF revision = 1 /\ options.verbose /\ ~pathExists(disk, <<>>)
                  THEN log \cup {Report("mkdir", <<>>)} ELSE log
  /\ UNCHANGED <<env, aside, projectName, callName, flow, options, plan, idx, disk0, failed, written,
                 prevFlow, prevWritten, runs>>

(***************************************************************************)
(* copyTemplateFiles: template check and enumeration                       *)
(***************************************************************************)
\* the orders in which getAllFiles can return the files of a tree
PlanOrders(files) ==
  {s \in [1..Cardinality(files) -> files] : \A i, j \in 1..Cardinality(files) : i # j => s[i] # s[j]}

\* both callers wrap whatever copyTemplateFiles throws
Wrapped(inner, path) == InstallerError("TEMPLATE_COPY_FAILED", inner, TRUE, <<>>, path)

\* the template directory does not exist: no lower-level error is involved
templateNotFound == [Wrapped("TEMPLATE_NOT_FOUND", NoPath) EXCEPT !.raw = "none"]
\* getAllFiles threw: its catch block made a new Error out of the message of
\* the fs.readdir error, and that new Error is what the details hold
readFailed == [Wrapped("TEMPLATE_READ_FAILED", NoPath) EXCEPT !.raw = "lost"]

\* variant: files listed before the enumeration failed are copied all the same
copyTemplateFilesPartial ==
  /\ pc = "enumerate"
  /\ \/ /\ templateState = "missing"
        /\ result' = templateNotFound
        /\ pc' = "done"
        /\ UNCHANGED <<plan, log>>
     \/ /\ templateState # "missing"
        /\ \E files \in PlanOrders(template) :
             /\ plan' = files
             /\ pc' = "copy"
        /\ UNCHANGED <<result, log>>
  /\ idx' = 1
  /\ UNCHANGED <<env, aside, disk, projectName, callName, flow, options, disk0, failed, written,
                 prevFlow, prevWritten, twin, twinActive, runs>>

copyTemplateFiles ==
  /\ pc = "enumerate"
  /\ \/ /\ templateState = "missing"
        /\ result' = templateNotFound
        /\ pc' = "done"
        /\ UNCHANGED <<plan, log>>
     \/ /\ templateState = "unreadable"
        /\ result' = readFailed
        /\ pc' = "done"
        /\ UNCHANGED <<plan, log>>
     \/ /\ templateState = "ok"
        /\ \E files \in PlanOrders(template) :
             /\ plan' = files
             /\ pc' = "copy"
        /\ log' = IF revision # 2 /\ options.verbose
                  THEN log \cup {Report("found", NoPath)} ELSE log
        /\ UNCHANGED result
  /\ idx' = 1
  /\ UNCHANGED <<env, aside, disk, projectName, callName, flow, options, disk0, failed, written,
                 prevFlow, prevWritten, twin, twinActive, runs>>

(***************************************************************************)
(* copyTemplateFiles: one iteration of the copy loop                       *)
(***************************************************************************)
Copied(d, st) == [disk |-> d, status |-> st]

\* variant: the existence test is dropped, every file is copied
copyOneOverwrite(d, file, preserve, ok) ==
  IF ok
  THEN Copied(WriteFile(ensureDir(d, dirname(file)), file, TemplateContent(file)), "copied")
  ELSE Copied(ensureDir(d, dirname(file)), "failed")

\* the body of the loop on one file; ok = FALSE when the file operation of
\* the iteration (fs.copyFile, or fs.readJson for a skipped package.json) throws
copyOne(d, file, preserve, ok) ==
  IF preserve /\ pathExists(d, file)
  THEN Copied(d, "skipped")
  ELSE IF ok
       THEN Copied(WriteFile(ensureDir(d, dirname(file)), file, TemplateContent(file)), "copied")
       ELSE Copied(ensureDir(d, dirname(file)), "failed")

\* what the loop prints for the file; for a skipped package.json the third
\* revision prints a notice and, when fs.readJson can read the template's
\* package.json (readable), the list of its dependencies
copyReports(file, status, readable) ==
  CASE status = "skipped" ->
         IF revision = 3 /\ file = PackageJson
         THEN {Report("pkg-skip", file)}
              \cup (IF readable THEN {Report("pkg-summary", file)} ELSE {})
         ELSE IF revision # 2 /\ options.verbose THEN {Report("skip", file)}
         ELSE {}
    [] status = "copied" ->
         IF revision # 2 /\ options.verbose THEN {Report("copied", file)} ELSE {}
    [] OTHER ->
         IF revision = 1 THEN {Report("warn-copy", file)} ELSE {}

copyNextFile ==
  /\ pc = "copy"
  /\ idx <= Len(plan)
  /\ \E ok \in BOOLEAN :
       LET file == plan[idx]
           out == copyOne(disk, file, preserveExisting, ok)
           shadow == copyOne(twin, file, preserveExisting, ok)
           thrown == out.status = "failed" /\ revision # 1
       IN /\ disk' = out.disk
          /\ twin' = shadow.disk
          /\ log' = log \cup copyReports(file, out.status, ok)
          /\ written' = IF out.status = "copied" THEN written \cup {file} ELSE written
          /\ failed' = IF out.status = "failed" THEN failed \cup {file} ELSE failed
          /\ result' = IF thrown THEN Wrapped("FILE_COPY_FAILED", file) ELSE result
          /\ pc' = IF thrown THEN "done"
                   ELSE IF idx = Len(plan) THEN AfterCopy ELSE "copy"
          \* the plan is local to copyTemplateFiles
          /\ plan' = IF thrown \/ idx = Len(plan) THEN <<>> ELSE plan
          /\ idx' = IF thrown \/ idx = Len(plan) THEN 1 ELSE idx + 1
  /\ UNCHANGED <<env, aside, projectName, callName, flow, options, disk0,
                 prevFlow, prevWritten, twinActive, runs>>

(***************************************************************************)
(* addToProject: entry and scaffold directories                            *)
(***************************************************************************)
\* the first revision starts copying at once, the second checks that cwd is
\* a directory and detects the project type (which selects the template
\* directory, here template/templateState), the third demands a package.json
addToProject(opts) ==
  /\ pc = "idle"
  /\ runs < MaxRuns
  /\ runs' = runs + 1
  /\ disk.kind = "dir"
  /\ IF revision = 3 /\ ~pathExists(disk, PackageJson)
     THEN /\ result' = InstallerError("INVALID_PROJECT", "", FALSE, <<>>, NoPath)
          /\ pc' = "done"
     ELSE /\ result' = NoResult
          /\ pc' = IF revision = 2 THEN "dirs" ELSE "enumerate"
  /\ flow' = "add"
  /\ options' = opts
  /\ plan' = <<>>
  /\ idx' = 1
  /\ log' = {}
  /\ disk0' = disk
  /\ written' = {}
  /\ failed' = {}
  /\ twin' = disk
  /\ twinActive' = FALSE
  /\ callName' = NoName
  /\ UNCHANGED <<env, aside, disk, projectName, prevFlow, prevWritten>>

RECURSIVE ensureAll(_, _, _)
ensureAll(d, dirs, i) ==
  IF i > Len(dirs) THEN d ELSE ensureAll(ensureDir(d, dirs[i]), dirs, i + 1)

ensureScaffoldDirs ==
  /\ pc = "dirs"
  /\ disk' = ensureAll(disk, ScaffoldDirs, 1)
  /\ twin' = ensureAll(twin, ScaffoldDirs, 1)
  /\ pc' = AfterDirs
  /\ UNCHANGED <<env, aside, projectName, callName, flow, options, plan, idx, result, log, disk0, failed,
                 written, prevFlow, prevWritten, twinActive, runs>>

(***************************************************************************)
(* createProject of the later revisions: git init and dependency install   *)
(***************************************************************************)
\* git init, then an initial .gitignore unless one exists
gitInit(d) ==
  LET repo == [d EXCEPT !.dirs = @ \cup {GitDir}]
  IN IF pathExists(repo, GitIgnore) THEN repo ELSE WriteFile(repo, GitIgnore, GitIgnoreText)

initGit ==
  /\ pc = "git"
  /\ \/ \* options.skipGit
        UNCHANGED <<disk, twin, log, written>>
     \/ /\ disk' = gitInit(disk)
        /\ twin' = gitInit(twin)
        /\ written' = IF pathExists(disk, GitIgnore) THEN written ELSE written \cup {GitIgnore}
        /\ UNCHANGED log
     \/ \* git init or the write of .gitignore throws
        /\ log' = log \cup {Report("warn-git", NoPath)}
        /\ UNCHANGED <<disk, twin, written>>
  /\ pc' = "install"
  /\ UNCHANGED <<env, aside, projectName, callName, flow, options, plan, idx, result, disk0, failed,
                 prevFlow, prevWritten, twinActive, runs>>

\* <package manager> install: with a package.json, node_modules and a lock file
installed(d) ==
  IF pathExists(d, PackageJson)
  THEN WriteFile([d EXCEPT !.dirs = @ \cup {NodeModules}], PackageLock, LockText)
  ELSE d

installDependencies ==
  /\ pc = "install"
  /\ \/ \* options.skipInstall
        UNCHANGED <<disk, twin, log, written>>
     \/ /\ disk' = installed(disk)
        /\ twin' = installed(twin)
        /\ written' = IF pathExists(disk, PackageJson) THEN written \cup {PackageLock} ELSE written
        /\ UNCHANGED log
     \/ \* the package manager fails
        /\ log' = log \cup {Report("warn-install", NoPath)}
        /\ UNCHANGED <<disk, twin, written>>
  /\ pc' = "link"
  /\ UNCHANGED <<env, aside, projectName, callName, flow, options, plan, idx, result, disk0, failed,
                 prevFlow, prevWritten, twinActive, runs>>

(***************************************************************************)
(* Alias linking                                                           *)
(***************************************************************************)
Linked(d, warned, w) == [disk |-> d, warned |-> warned, written |-> w]

\* variant: an existing alias is removed before it is created again
RECURSIVE linkFromForce(_, _, _, _, _)
linkFromForce(d, i, w, failAt, legacy) ==
  IF i > Len(Aliases) THEN Linked(d, FALSE, w)
  ELSE LET alias == Aliases[i]
           cleared == [d EXCEPT !.files[alias] = Absent]
       IN IF i = failAt THEN Linked(cleared, TRUE, w)
          ELSE IF platform = "win32"
               THEN linkFromForce(WriteFile(cleared, alias, ReadFile(d, RulesFile)), i + 1,
                                  w \cup {alias}, failAt, legacy)
               ELSE linkFromForce([cleared EXCEPT !.files[alias] = Link], i + 1,
                                  w \cup {alias}, failAt, legacy)

\* the aliases from the i-th on, inside one try block: the first throw ends
\* the block.  failAt is the alias whose creation the system refuses (0: none);
\* legacy tells whether fs-extra's ensureSymlink returns silently on an
\* existing destination (older releases) or lets fs.symlink throw EEXIST.
RECURSIVE linkFrom(_, _, _, _, _)
linkFrom(d, i, w, failAt, legacy) ==
  IF i > Len(Aliases) THEN Linked(d, FALSE, w)
  ELSE LET alias == Aliases[i]
       IN IF platform = "win32"
          THEN \* fs.copyFileSync(rulesPath, alias)
               IF i = failAt THEN Linked(d, TRUE, w)
               ELSE linkFrom(WriteFile(d, alias, ReadFile(d, RulesFile)), i + 1,
                             w \cup {alias}, failAt, legacy)
          ELSE \* fs.ensureSymlink(rulesPath, alias)
               IF d.files[alias] = Link THEN linkFrom(d, i + 1, w, failAt, legacy)
               ELSE IF d.files[alias] # Absent
                    THEN IF legacy THEN linkFrom(d, i + 1, w, failAt, legacy)
                         ELSE Linked(d, TRUE, w)
                    ELSE IF i = failAt THEN Linked(d, TRUE, w)
                         ELSE linkFrom([d EXCEPT !.files[alias] = Link], i + 1,
                                       w \cup {alias}, failAt, legacy)

\* variant: the skip option is not looked at
linkRulesIgnoreSkip(d, skip, failAt, legacy) ==
  IF ~pathExists(d, RulesFile) THEN Linked(d, FALSE, {})
  ELSE linkFrom(d, 1, {}, failAt, legacy)

\* variant: the existence of rules.yaml is not looked at
linkRulesUnchecked(d, skip, failAt, legacy) ==
  IF skip THEN Linked(d, FALSE, {})
  ELSE linkFrom(d, 1, {}, failAt, legacy)

linkRules(d, skip, failAt, legacy) ==
  IF skip \/ ~pathExists(d, RulesFile) THEN Linked(d, FALSE, {})
  ELSE linkFrom(d, 1, {}, failAt, legacy)

\* variant: a failure of the linking step is thrown to the caller
linkAliasesFatal ==
  /\ pc = "link"
  /\ \E failAt \in 0..Len(Aliases), legacy \in BOOLEAN :
       LET out == linkRules(disk, options.skipSymlink, failAt, legacy)
           shadow == linkRules(twin, options.skipSymlink, failAt, legacy)
       IN /\ disk' = out.disk
          /\ twin' = shadow.disk
          /\ written' = written \cup out.written
          /\ log' = log
          /\ result' = IF out.warned THEN InstallerError("SYMLINK_FAILED", "", TRUE, <<>>, NoPath)
                        ELSE Returned
  /\ pc' = "done"
  /\ UNCHANGED <<env, aside, projectName, callName, flow, options, plan, idx, disk0, failed,
                 prevFlow, prevWritten, twinActive, runs>>

linkAliases ==
  /\ pc = "link"
  /\ \E failAt \in 0..Len(Aliases), legacy \in BOOLEAN :
       LET out == linkRules(disk, options.skipSymlink, failAt, legacy)
           shadow == linkRules(twin, options.skipSymlink, failAt, legacy)
       IN /\ disk' = out.disk
          /\ twin' = shadow.disk
          /\ written' = written \cup out.written
          /\ log' = IF out.warned THEN log \cup {Report("warn-link", NoPath)} ELSE log
  /\ result' = Returned
  /\ pc' = "done"
  /\ UNCHANGED <<env, aside, projectName, callName, flow, options, plan, idx, disk0, failed,
                 prevFlow, prevWritten, twinActive, runs>>

(***************************************************************************)
(* The caller gets the result; the installer can be invoked again          *)
(***************************************************************************)
finish ==
  /\ pc = "done"
  /\ pc' = "idle"
  /\ prevFlow' = flow
  /\ prevWritten' = IF flow = "add" THEN written ELSE {}
  /\ flow' = "none"
  /\ options' = NoOptions
  /\ plan' = <<>>
  /\ idx' = 1
  /\ result' = NoResult
  /\ log' = {}
  /\ disk0' = disk
  /\ written' = {}
  /\ failed' = {}
  /\ twin' = disk
  /\ twinActive' = FALSE
  /\ callName' = NoName
  /\ UNCHANGED <<env, aside, disk, projectName, runs>>

Next ==
  \/ \E name \in Names, opts \in Options : createProject(name, opts)
  \/ PrepareTarget
  \/ \E opts \in Options : addToProject(opts)
  \/ copyTemplateFiles
  \/ copyNextFile
  \/ ensureScaffoldDirs
  \/ initGit
  \/ installDependencies
  \/ linkAliases
  \/ finish

Spec == Init /\ [][Next]_vars

(***************************************************************************)
(* getAllFiles: the recursive path enumerator, one activation per          *)
(* directory; fs.readdir returns the entries in an order of its own        *)
(***************************************************************************)
Frame(dir) == [dir |-> dir, read |-> FALSE, entries |-> <<>>, files |-> <<>>]
Top == frames[Len(frames)]
SetTop(f) == [frames EXCEPT ![Len(frames)] = f]

\* variant: the type is taken after following a symbolic link (fs.stat)
isDirectoryFollowingLinks(t, p) == statKind(t, p) = "dir"

\* variant: no entry counts as a directory
isDirectoryNever(t, p) == FALSE

\* entry.isDirectory() of a Dirent: the type of the entry itself
isDirectory(t, p) == lstatKind(t, p) = "dir"

\* a caller (copyTemplateFiles) calls getAllFiles(templatePath)
getAllFiles ==
  /\ enumPc = "idle"
  /\ enumRuns < MaxEnums
  /\ enumRuns' = enumRuns + 1
  /\ enumPc' = "running"
  /\ frames' = <<Frame(<<>>)>>
  /\ reads' = <<>>
  /\ listing' = NoListing
  /\ UNCHANGED <<env, flowVars, cliVars, tree, unreadableDir, prevListing>>

\* const entries = await fs.readdir(dir, {withFileTypes: true});  a failure
\* is rethrown by the catch block of every activation up to the caller
readdir ==
  /\ enumPc = "running"
  /\ ~Top.read
  /\ IF realdir(tree, Top.dir) = unreadableDir
     THEN /\ frames' = <<>>
          /\ listing' = [status |-> "error", files |-> <<>>]
          /\ enumPc' = "returned"
          /\ UNCHANGED reads
     ELSE /\ \E order \in PlanOrders(entriesOf(tree, Top.dir)) :
               frames' = SetTop([Top EXCEPT !.read = TRUE, !.entries = order])
          /\ reads' = Append(reads, realdir(tree, Top.dir))
          /\ UNCHANGED <<listing, enumPc>>
  /\ UNCHANGED <<env, flowVars, cliVars, tree, unreadableDir, prevListing, enumRuns>>

\* one iteration of the loop over the entries
visitEntry ==
  /\ enumPc = "running"
  /\ Top.read /\ Top.entries # <<>>
  /\ LET fullPath == Append(Top.dir, Head(Top.entries))
         rest == [Top EXCEPT !.entries = Tail(@)]
     IN IF isDirectory(tree, fullPath)
        THEN frames' = Append(SetTop(rest), Frame(fullPath))
        ELSE frames' = SetTop([rest EXCEPT !.files = Append(@, fullPath)])
  /\ UNCHANGED <<env, flowVars, cliVars, tree, unreadableDir, enumPc, listing, reads, prevListing, enumRuns>>

\* return files;  the caller of a nested activation pushes them to its own
returnFiles ==
  /\ enumPc = "running"
  /\ Top.read /\ Top.entries = <<>>
  /\ IF Len(frames) = 1
     THEN /\ listing' = [status |-> "ok", files |-> Top.files]
          /\ frames' = <<>>
          /\ enumPc' = "returned"
     ELSE /\ frames' = [SubSeq(frames, 1, Len(frames) - 1) EXCEPT
                          ![Len(frames) - 1].files = @ \o Top.files]
          /\ UNCHANGED <<listing, enumPc>>
  /\ UNCHANGED <<env, flowVars, cliVars, tree, unreadableDir, reads, prevListing, enumRuns>>

\* the caller has the result; the template can be enumerated again
enumerated ==
  /\ enumPc = "returned"
  /\ enumPc' = "idle"
  /\ prevListing' = listing
  /\ UNCHANGED <<env, flowVars, cliVars, tree, unreadableDir, frames, listing, reads, enumRuns>>

\* no flow of the installer is running
InstallerIdle ==
  /\ revision = 1
  /\ platform = "posix"
  /\ template = {MemoryBankFile}
  /\ templateState = "ok"
  /\ disk = AbsentDisk
  /\ projectName = NoName
  /\ callName = NoName
  /\ pc = "idle"
  /\ flow = "none"
  /\ options = NoOptions
  /\ plan = <<>>
  /\ idx = 1
  /\ result = NoResult
  /\ log = {}
  /\ disk0 = disk
  /\ written = {}
  /\ failed = {}
  /\ prevFlow = "none"
  /\ prevWritten = {}
  /\ twin = disk
  /\ twinActive = FALSE
  /\ runs = 0

EnumInit ==
  /\ InstallerIdle
  /\ tree \in Trees
  /\ unreadableDir \in {NoDir, <<>>} \cup {p \in NodePaths : tree[p] = "dir"}
  /\ EnumeratorIdle
  /\ argv = <<>>
  /\ cliPc = "idle"
  /\ CliIdle

EnumNext ==
  \/ getAllFiles
  \/ readdir
  \/ visitEntry
  \/ returnFiles
  \/ enumerated

EnumSpec == EnumInit /\ [][EnumNext]_vars
\* an enumeration that can take a step eventually takes one
EnumFairSpec == EnumSpec /\ WF_vars(readdir \/ visitEntry \/ returnFiles)

(***************************************************************************)
(* The zero-dependency CLI: parseArgs, main and the name prompt            *)
(***************************************************************************)
HelpFlags == {Tok(2, "help"), Tok(1, "h")}
VersionFlags == {Tok(2, "version"), Tok(1, "v")}

\* the body of the loop of parseArgs on one argument: the switch on the
\* option names is entered only for an argument that starts with two dashes
parseArg(o, arg) ==
  IF startsWithDashes(arg)
  THEN CASE arg = Tok(2, "add") -> [o EXCEPT !.add = TRUE]
         [] arg = Tok(2, "verbose") -> [o EXCEPT !.verbose = TRUE]
         [] arg = Tok(2, "skip-symlink") -> [o EXCEPT !.skipSymlink = TRUE]
         [] arg \in HelpFlags -> [o EXCEPT !.help = TRUE]
         [] arg \in VersionFlags -> [o EXCEPT !.version = TRUE]
         [] OTHER -> o
  ELSE IF falsy(o.projectName) /\ ~o.add
       THEN [o EXCEPT !.projectName = arg]
       ELSE o

parseArgs ==
  /\ cliPc = "parse"
  /\ argi <= Len(argv)
  /\ cliOptions' = parseArg(cliOptions, argv[argi])
  /\ argi' = argi + 1
  /\ cliPc' = IF argi = Len(argv) THEN "main" ELSE "parse"
  /\ UNCHANGED <<env, flowVars, enumVars, argv, called, shown>>

Call(fn, name) == [fn |-> fn, name |-> name]

\* variant: a positional name is looked at before the add option
mainPrefersName ==
  /\ cliPc = "main"
  /\ IF cliOptions.help
     THEN shown' = "help" /\ cliPc' = "exit" /\ UNCHANGED called
     ELSE IF cliOptions.version
     THEN shown' = "version" /\ cliPc' = "exit" /\ UNCHANGED called
     ELSE IF ~falsy(cliOptions.projectName)
     THEN called' = Call("createProject", cliOptions.projectName) /\ cliPc' = "exit"
          /\ UNCHANGED shown
     ELSE IF cliOptions.add
     THEN called' = Call("addToProject", null) /\ cliPc' = "exit" /\ UNCHANGED shown
     ELSE cliPc' = "prompt" /\ UNCHANGED <<called, shown>>
  /\ UNCHANGED <<env, flowVars, enumVars, argv, argi, cliOptions>>

\* main up to the prompt: help, version, the add flow, or the create flow
\* with the name of the command line
main ==
  /\ cliPc = "main"
  /\ IF cliOptions.help
     THEN shown' = "help" /\ cliPc' = "exit" /\ UNCHANGED called
     ELSE IF cliOptions.version
     THEN shown' = "version" /\ cliPc' = "exit" /\ UNCHANGED called
     ELSE IF cliOptions.add
     THEN called' = Call("addToProject", null) /\ cliPc' = "exit" /\ UNCHANGED shown
     ELSE IF falsy(cliOptions.projectName)
     THEN cliPc' = "prompt" /\ UNCHANGED <<called, shown>>
     ELSE called' = Call("createProject", cliOptions.projectName) /\ cliPc' = "exit"
          /\ UNCHANGED shown
  /\ UNCHANGED <<env, flowVars, enumVars, argv, argi, cliOptions>>

\* the answer to 'Name of directory to create': blank adds to the current
\* directory, anything else is the name of the directory to create
prompt ==
  /\ cliPc = "prompt"
  /\ \E answer \in Answers :
       IF falsy(trim(answer))
       THEN /\ cliOptions' = [cliOptions EXCEPT !.add = TRUE]
            /\ called' = Call("addToProject", answer)
       ELSE /\ called' = Call("createProject", answer)
            /\ UNCHANGED cliOptions
  /\ cliPc' = "exit"
  /\ UNCHANGED <<env, flowVars, enumVars, argv, argi, shown>>

CliInit ==
  /\ InstallerIdle
  /\ tree = EmptyTree
  /\ unreadableDir = NoDir
  /\ EnumeratorIdle
  /\ argv \in ArgLists
  /\ cliPc = IF argv = <<>> THEN "main" ELSE "parse"
  /\ CliIdle

CliNext ==
  \/ parseArgs
  \/ main
  \/ prompt

CliSpec == CliInit /\ [][CliNext]_vars

(***************************************************************************)
(* Properties                                                              *)
(***************************************************************************)
ValidCall == validateProjectName(callName).validForNewPackages
NonEmptyDir(d) == d.kind = "dir" /\ (d.dirs # {} \/ \E p \in Paths : d.files[p] # Absent)
Succeeded == pc = "done" /\ result.status = "ok"

\* C1: in the add flow a template file whose destination existed when the
\* run started keeps the content it had then
C1_PreservedOnAdd ==
  flow = "add" =>
    \A p \in template : disk0.files[p] # Absent => disk.files[p] = disk0.files[p]

C1_Witness ==
  /\ flow = "add" /\ Succeeded
  /\ RulesFile \in template /\ disk0.files[RulesFile] = Custom
  /\ disk.files[RulesFile] = Custom
  /\ MemoryBankFile \in written

\* C2: an alias file that existed before the linking step keeps its content,
\* on the symlink branch and on the copy branch
C2_AliasNeverOverwritten ==
  pc # "idle" =>
    \A a \in AliasSet : disk0.files[a] # Absent => disk.files[a] = disk0.files[a]

\* C3: createProject with a valid name on an existing non-empty target fails
\* with DIR_NOT_EMPTY and leaves the filesystem as it was
C3_NonEmptyTargetRejected ==
  (flow = "create" /\ ValidCall /\ NonEmptyDir(disk0)) =>
    /\ disk = disk0
    /\ pc \in {"prepare", "done"}
    /\ pc = "done" => result.status = "error" /\ result.code = "DIR_NOT_EMPTY"

C3_Witness ==
  /\ flow = "create" /\ pc = "done" /\ ValidCall
  /\ disk0.files[NotesFile] = Custom
  /\ result.code = "DIR_NOT_EMPTY"
  /\ disk.files[NotesFile] = Custom

\* C4: createProject with a name that fails validation throws INVALID_NAME
\* with the validator's complaints and touches nothing on the filesystem
C4_InvalidNameBeforeMutation ==
  (flow = "create" /\ ~ValidCall) =>
    /\ pc = "done"
    /\ result.status = "error" /\ result.code = "INVALID_NAME"
    /\ result.errors # <<>>
    /\ \A i \in 1..Len(NpmErrors(callName)) :
         \E j \in 1..Len(result.errors) : result.errors[j] = NpmErrors(callName)[i]
    /\ \A i \in 1..Len(NpmWarnings(callName)) :
         \E j \in 1..Len(result.errors) : result.errors[j] = NpmWarnings(callName)[i]
    /\ disk = disk0

C4_Witness ==
  /\ flow = "create" /\ pc = "done"
  /\ callName = [chars |-> <<"!">>, pad |-> 0]
  /\ result.code = "INVALID_NAME"
  /\ disk0 = AbsentDisk /\ disk = AbsentDisk

\* C5: every file a run creates or modifies is the destination of a template
\* file or an alias file
C5_WritesWithinTemplateAndAliases ==
  pc # "idle" =>
    \A p \in Paths : disk.files[p] # disk0.files[p] => p \in template \cup AliasSet

\* C6: after a flow returned successfully every scaffold directory exists
C6_ScaffoldDirsExist ==
  Succeeded => \A d \in ScaffoldSet : d \in disk.dirs

\* C7: a second addToProject right after a first one leaves every file the
\* first one wrote with the content it had
C7_SecondAddKeepsFirstRunFiles ==
  (flow = "add" /\ prevFlow = "add") =>
    \A p \in prevWritten : disk.files[p] = disk0.files[p]

C7_Witness ==
  /\ flow = "add" /\ prevFlow = "add" /\ Succeeded
  /\ RulesFile \in prevWritten /\ disk.files[RulesFile] = TemplateContent(RulesFile)
  /\ AliasFiles3[1] \in prevWritten /\ disk.files[AliasFiles3[1]] # Absent

\* C8: a second addToProject right after a first one reports every file the
\* first one wrote as skipped
C8_SecondAddReportsSkips ==
  (flow = "add" /\ prevFlow = "add" /\ Succeeded) =>
    \A p \in prevWritten : Report("skip", p) \in log

\* C9: createProject on an existing empty directory ends like createProject
\* on a missing target: same outcome of the preparation, same files and
\* directories
C9_EmptyTargetLikeAbsent ==
  (flow = "create" /\ ValidCall /\ pc = "done" /\ IsFresh(disk0)) =>
    /\ twinActive
    /\ twin = disk
    /\ result.code \notin {"DIR_NOT_EMPTY", "DIR_CREATE_FAILED", "FS_ERROR"}

C9_Witness ==
  /\ flow = "create" /\ Succeeded /\ disk0 = EmptyDirDisk
  /\ twinActive /\ twin = disk
  /\ disk.files[RulesFile] = TemplateContent(RulesFile)
  /\ disk.files[AliasFiles3[1]] # Absent

\* C10: a failed copy of a template file stops the run with an error naming
\* the file, and what was written before stays
C10_CopyFailureStopsRun ==
  failed # {} =>
    /\ pc = "done"
    /\ result.status = "error"
    /\ result.path \in failed
    /\ \A p \in written : disk.files[p] # Absent

\* C11: when createProject has returned successfully the target is a
\* directory and every file of the template tree is at its destination with
\* the template's content
C11_CreateCopiesWholeTemplate ==
  (flow = "create" /\ Succeeded) =>
    /\ disk.kind = "dir"
    /\ \A p \in template : disk.files[p] = TemplateContent(p)

\* template files the copy loop neither copied nor skipped as existing
NotCopied ==
  {p \in template : p \notin written /\ ~(preserveExisting /\ pathExists(disk0, p))}
\* the file is named by a warning of the loop or by the error of the run
Surfaced(p) ==
  \/ Report("warn-copy", p) \in log
  \/ result.status = "error" /\ result.path = p

\* C12: once a copy has failed, every template file that ends up not copied
\* is reported on its own, by a warning or by the error of the run
C12_EveryNonCopiedFileSurfaced ==
  (pc = "done" /\ failed # {}) => \A p \in NotCopied : Surfaced(p)

\* C13: a run stopped by a missing or unreadable template root gives the
\* caller an InstallerError whose code is TEMPLATE_NOT_FOUND
C13_TemplateNotFoundSeenByCaller ==
  (pc = "done" /\ templateState # "ok"
     /\ result.inner \in {"TEMPLATE_NOT_FOUND", "TEMPLATE_READ_FAILED"}) =>
    result.status = "error" /\ result.code = "TEMPLATE_NOT_FOUND"

LinkWarning == Report("warn-link", NoPath)

\* C14: the alias-linking step always ends the run with the destination path
\* returned; it leaves every template file as it was, and when it leaves an
\* alias uncreated although rules.yaml exists and linking was not skipped, a
\* warning is printed
C14_AliasFailureNeverFatal ==
  [][pc = "link" =>
       /\ pc' = "done" /\ result' = Returned
       /\ \A p \in template : disk'.files[p] = disk.files[p]
       /\ (/\ ~options.skipSymlink
           /\ pathExists(disk, RulesFile)
           /\ \E i \in 1..Len(Aliases) : disk'.files[Aliases[i]] = Absent)
          => LinkWarning \in log']_vars

C14_Witness ==
  /\ Succeeded /\ LinkWarning \in log
  /\ RulesFile \in written /\ disk.files[RulesFile] = TemplateContent(RulesFile)
  /\ disk.files[AliasFiles3[1]] # Absent
  /\ disk.files[AliasFiles3[2]] = Absent

\* the creation of the i-th alias as a symbolic link was attempted: the path
\* was free when the run started and every alias before it is a link
SymlinkAttempted(i) ==
  /\ disk0.files[Aliases[i]] = Absent
  /\ \A j \in 1..(i - 1) : disk.files[Aliases[j]] = Link

C16_CreateLeavesThreeAliases ==
  (flow = "create" /\ Succeeded /\ ~options.skipSymlink /\ RulesFile \in template) =>
    \A a \in AliasSet :
      /\ disk.files[a] # Absent
      /\ ReadFile(disk, a) = TemplateContent(RulesFile)

\* the syntax rule: one to 214 characters, each a letter, digit, hyphen,
\* underscore or dot, the first one neither a dot nor a hyphen
SyntaxValid(n) ==
  /\ NameLength(n) >= 1 /\ NameLength(n) <= NameLimit
  /\ \A i \in 1..Len(n.chars) : n.chars[i] \in {"a", "A", "."}
  /\ FirstChar(n) # "."
\* empty, longer than 214 characters, or holding a path separator
MustBeRejected(n) ==
  NameLength(n) = 0 \/ NameLength(n) > NameLimit \/ HasChar(n, "/") \/ HasChar(n, "\\")

\* C17: the validator accepts, with no error, every name that is valid under
\* the syntax rule; it rejects with at least one error every name that is
\* empty, too long or holds a path separator, and createProject ends such a
\* call with INVALID_NAME
C17_NameValidation ==
  (flow = "create" /\ pc # "idle") =>
    LET v == validators_validateProjectName(callName)
    IN /\ SyntaxValid(callName) => v.isValid /\ v.errors = <<>>
       /\ MustBeRejected(callName) =>
            /\ ~v.isValid /\ v.errors # <<>>
            /\ pc = "done" /\ result.status = "error" /\ result.code = "INVALID_NAME"

\* C18: in a run with the skip-symlink option every alias file stays as it
\* was when the run started: none is created, none is modified
C18_SkipSymlinkLeavesAliases ==
  (pc # "idle" /\ options.skipSymlink) =>
    \A a \in AliasSet : disk.files[a] = disk0.files[a]

C18_Witness ==
  /\ Succeeded /\ options.skipSymlink
  /\ RulesFile \in written /\ pathExists(disk, RulesFile)
  /\ \A a \in AliasSet : disk.files[a] = Absent

\* C19: when rules.yaml does not exist in the destination as the linking
\* step runs, the step creates no alias file and the run returns the path
C19_NoRulesNoAlias ==
  [][(pc = "link" /\ ~pathExists(disk, RulesFile)) =>
       /\ pc' = "done" /\ result' = Returned
       /\ \A a \in AliasSet : disk'.files[a] = disk.files[a]]_vars

C19_Witness ==
  /\ Succeeded /\ ~options.skipSymlink
  /\ ~pathExists(disk, RulesFile)
  /\ MemoryBankFile \in written
  /\ \A a \in AliasSet : disk.files[a] = Absent

\* the place of a step in its flow; addToProject ensures the scaffold
\* directories before the copy in the second revision, after it otherwise
StepRank(p) ==
  CASE p = "idle" -> 0
    [] p = "prepare" -> 1
    [] p = "dirs" -> IF revision = 2 THEN 1 ELSE 4
    [] p = "enumerate" -> 2
    [] p = "copy" -> 3
    [] p = "git" -> 4
    [] p = "install" -> 5
    [] p = "link" -> 6
    [] OTHER -> 7

\* C20: a run only moves forward: validation, target, enumeration, one copy
\* per template file, then linking.  Validation touches nothing, the root is
\* created only by the target step, template files change only in the copy
\* loop and alias files only in the linking step; a step that throws ends
\* the run, and nothing is done after the end of a run
C20_StrictlyLinear ==
  [][/\ pc \notin {"idle", "done"} =>
          \/ StepRank(pc') > StepRank(pc)
          \/ pc = "copy" /\ pc' = "copy" /\ idx' = idx + 1 /\ plan' = plan
     /\ pc = "copy" => plan[idx] \notin written \cup failed
     /\ pc = "idle" => disk' = disk
     /\ disk'.kind # disk.kind => pc = "prepare"
     /\ (\E p \in template : disk'.files[p] # disk.files[p]) => pc = "copy"
     /\ (\E a \in AliasSet : disk'.files[a] # disk.files[a]) => pc = "link"
     /\ result'.status = "error" => pc' = "done"
     /\ pc = "done" => pc' = "idle" /\ disk' = disk]_vars

C20_Witness ==
  /\ flow = "create" /\ pc = "done" /\ disk0 = AbsentDisk
  /\ result.status = "error" /\ result.inner = "FILE_COPY_FAILED"
  /\ written # {} /\ failed # {}
  /\ disk.kind = "dir"
  /\ \A a \in AliasSet : disk.files[a] = Absent

Range(s) == {s[i] : i \in 1..Len(s)}

\* C21: two enumerations of the same tree return the same sequence of paths
C21_EnumerationOrderDeterministic ==
  (enumPc = "returned" /\ listing.status = "ok" /\ prevListing.status = "ok") =>
    listing.files = prevListing.files

\* the entries below the root that are not directories
NonDirectories(t) == {p \in NodePaths : t[p] \in {"file", "link"}}

\* C22: a returned listing holds every entry below the root that is not a
\* directory, each exactly once, and no directory
C22_EnumerationComplete ==
  (enumPc = "returned" /\ listing.status = "ok") =>
    /\ Range(listing.files) = NonDirectories(tree)
    /\ Len(listing.files) = Cardinality(NonDirectories(tree))
    /\ \A i \in 1..Len(listing.files) : lstatKind(tree, listing.files[i]) # "dir"

C22_Witness ==
  /\ enumPc = "returned" /\ listing.status = "ok"
  /\ tree[<<"d">>] = "dir" /\ tree[<<"d", "b">>] = "dir"
  /\ listing.files = << <<"d", "a">> >>

\* no directory is read twice and no activation runs on a symbolic link
NoDescentThroughLinks ==
  /\ \A i, j \in 1..Len(reads) : i # j => reads[i] # reads[j]
  /\ \A k \in 1..Len(frames) : lstatKind(tree, frames[k].dir) = "dir"

\* C23: every enumeration that was started returns or throws, on trees with
\* cyclic symbolic links too; it never descends through a symbolic link and
\* reads no directory twice
C23_EnumerationTerminates ==
  /\ []NoDescentThroughLinks
  /\ (enumPc = "running") ~> (enumPc = "returned")

C23_Witness ==
  /\ enumPc = "returned" /\ listing.status = "ok"
  /\ tree[<<"d">>] = "dir" /\ tree[<<"d", "a">>] = "link"
  /\ listing.files = << <<"d", "a">> >>
  /\ reads = << <<>>, <<"d">> >>

\* C24: a failed run hands the caller an InstallerError with a code, and
\* when a lower-level error caused the failure that error is reachable
\* through the details of the InstallerError
C24_FailuresWrappedWithCause ==
  (pc = "done" /\ result.status # "ok") =>
    /\ result.status = "error" /\ result.code # ""
    /\ result.raw # "lost"

\* C25: when addToProject meets a package.json in the template and one in
\* the destination, the destination's file keeps its content and the
\* dependencies of the template's file are listed
C25_PackageJsonSummary ==
  (flow = "add" /\ Succeeded /\ PackageJson \in template /\ pathExists(disk0, PackageJson)) =>
    /\ disk.files[PackageJson] = disk0.files[PackageJson]
    /\ Report("pkg-summary", PackageJson) \in log

HasArg(flags) == \E i \in 1..Len(argv) : argv[i] \in flags

\* C26: a command line with --help or -h ends with the help text shown and
\* no flow called
C26_HelpRunsNothing ==
  (cliPc = "exit" /\ HasArg(HelpFlags)) => shown = "help" /\ called = NoCall

\* C30: a command line with --add never leads to createProject, wherever a
\* positional name stands: the add flow runs unless help or the version was
\* asked for; and createProject is never called with a blank name, so a blank
\* answer to the prompt runs addToProject
C30_AddNeverCreates ==
  cliPc = "exit" =>
    /\ HasArg({Tok(2, "add")}) =>
         /\ called.fn # "createProject"
         /\ shown = "none" => called.fn = "addToProject"
    /\ called.fn = "createProject" => ~falsy(trim(called.name))
    /\ shown = "none" => called.fn \in {"createProject", "addToProject"}

C30_Witness ==
  /\ cliPc = "exit"
  /\ argv = <<Tok(0, "proj"), Tok(2, "add")>>
  /\ cliOptions.projectName = Tok(0, "proj")
  /\ called = Call("addToProject", null)

\* the aliases of the running installer that are missing from the destination
MissingAliases == {i \in 1..Len(Aliases) : disk.files[Aliases[i]] = Absent}

\* C27: the aliases are handled one by one, each attempted whatever happened
\* to the others; the system refuses at most one creation in a run, so after
\* a linking step that ran at most one alias is missing
C27_AliasesIndependent ==
  (Succeeded /\ ~options.skipSymlink /\ pathExists(disk, RulesFile)) =>
    Cardinality(MissingAliases) <= 1

\* C28: when the template tree cannot be enumerated the flow ends with an
\* error, and in no state of the run has a template file been written: the
\* copy loop is never entered
C28_EnumerationFailureWritesNothing ==
  (pc # "idle" /\ templateState = "unreadable") =>
    /\ pc # "copy" /\ written \cap template = {}
    /\ \A p \in template : disk.files[p] = disk0.files[p]
    /\ pc = "done" => result.status = "error"

C28_Witness ==
  /\ pc = "done" /\ templateState = "unreadable"
  /\ result.code = "TEMPLATE_COPY_FAILED" /\ result.inner = "TEMPLATE_READ_FAILED"
  /\ disk0 = AbsentDisk /\ disk.kind = "dir"
  /\ \A p \in Paths : disk.files[p] = Absent

\* C29: a createProject call that follows a createProject run and finds an
\* entry in the target fails with DIR_NOT_EMPTY and changes nothing, so the
\* files a partial run left out stay missing
C29_CreateNotRerunnable ==
  (flow = "create" /\ prevFlow = "create" /\ ValidCall /\ NonEmptyDir(disk0)) =>
    /\ disk = disk0
    /\ pc \in {"prepare", "done"}
    /\ pc = "done" => result.status = "error" /\ result.code = "DIR_NOT_EMPTY"

C29_Witness ==
  /\ flow = "create" /\ prevFlow = "create" /\ pc = "done" /\ ValidCall
  /\ revision = 3 /\ MemoryBankFile \in template
  /\ disk0.files[RulesFile] = TemplateContent(RulesFile)
  /\ result.code = "DIR_NOT_EMPTY"
  /\ disk.files[MemoryBankFile] = Absent

====
